---- MODULE Spec2Model ----
(***************************************************************************)
(* Production / trade simulation of conflict_model.ipynb: a graph G of     *)
(* cities (food stock, blocked flag) and trade links, advanced by          *)
(* produce_food, trade_food and simulate_economy.                          *)
(***************************************************************************)
EXTENDS Integers, Sequences, FiniteSets, TLC

VARIABLES
  food,     \* G.nodes[city]["resources"]["food"], per city
  blocked,  \* G.nodes[city]["blocked"], per city
  edges,    \* G.edges(): the links in the order the graph yields them
  pc,       \* position of the caller: "idle", "loop" (inside simulate_economy), ...
  steps,    \* simulate_economy's argument
  step,     \* simulate_economy's loop variable (turns completed)
  hist,     \* history: the calls / turns completed, each with the food before it
  start,    \* history: food and blocked flags when the current run was called
  atBlock   \* history: city and food at the moment a city was set blocked

vars == <<food, blocked, edges, pc, steps, step, hist, start, atBlock>>

-----------------------------------------------------------------------------
(* Program constants *)

DefaultProduction == 10    \* production_amount
DefaultThreshold == 100    \* trade_threshold
DefaultMaxTrade == 20      \* max_trade_per_edge
InitialFood == 100         \* resources={"food": 100}

(* Bounds of the model *)

MaxSteps == 3              \* simulate_economy is called with steps in 0..MaxSteps

Cities == {"A", "B", "C", "D"}

\* G.nodes: the cities in insertion order
Nodes == <<"A", "B", "C", "D">>

\* Stocks a graph handed to the simulation may hold
FoodLevels == {0, 80, InitialFood, 130}

\* Arguments the operations are called with
Amounts == {0, DefaultProduction}
Thresholds == {80, DefaultThreshold}
Caps == {DefaultMaxTrade, 50}

\* Link lists of the graphs handed to the simulation
Topologies ==
  { <<>>,
    << <<"A", "B">> >>,
    << <<"A", "B">>, <<"B", "C">> >>,
    << <<"A", "B">>, <<"A", "C">>, <<"A", "D">> >>,
    << <<"A", "B">>, <<"B", "C">>, <<"C", "D">>, <<"A", "D">> >>,
    << <<"B", "A">>, <<"A", "C">>, <<"C", "B">>, <<"D", "C">> >> }

None == [city |-> "", value |-> FALSE, food |-> <<>>]

\* a history entry: the call, its arguments and the food it found
Call(name, amount, threshold, cap, before) ==
  [name |-> name, amount |-> amount, threshold |-> threshold, cap |-> cap,
   before |-> before]

-----------------------------------------------------------------------------
(* produce_food *)

RECURSIVE ProduceLoop(_, _, _, _)
\* the stocks after the loop over G.nodes has visited the first n cities
ProduceLoop(f, b, amount, n) ==
  IF n = 0 THEN f
  ELSE LET g == ProduceLoop(f, b, amount, n - 1)
           city == Nodes[n]
       IN  IF ~b[city] THEN [g EXCEPT ![city] = @ + amount] ELSE g

\* variant: the blocked test is dropped, every city produces
ProduceFoodAll(f, b, amount) == [c \in Cities |-> f[c] + amount]

\* produce_food(G, production_amount): the stocks it leaves
ProduceFood(f, b, amount) == ProduceLoop(f, b, amount, Len(Nodes))

-----------------------------------------------------------------------------
(* trade_food *)

Min2(x, y) == IF x <= y THEN x ELSE y
Min3(x, y, z) == Min2(x, Min2(y, z))

\* variants: "and" for "or"; only the first city tested
EitherBlockedBoth(b, cityA, cityB) == b[cityA] /\ b[cityB]
EitherBlockedFirst(b, cityA, cityB) == b[cityA]

\* the edge is skipped: either city is blocked
EitherBlocked(b, cityA, cityB) == b[cityA] \/ b[cityB]

\* variant: the flows are applied to the stocks as the loop goes
ReadFoodUpdated(f, flows, city) == f[city] + flows[city]

\* the stock the loop reads for a city: G.nodes[city]["resources"]["food"],
\* which the loop itself never writes (the flows are applied after it)
ReadFood(f, flows, city) == f[city]

\* variant: the receiving side is not tested
GivesNoDeficitTest(foodSrc, foodDst, threshold) == foodSrc > threshold

\* the test that sends food from src to dst
Gives(foodSrc, foodDst, threshold) ==
  foodSrc > threshold /\ foodDst < threshold

\* variant: the deficit is left out of the min
FlowNoDeficit(surplus, deficit, cap) == Min2(surplus, cap)

\* flowAB / flowBA
Flow(surplus, deficit, cap) == Min3(surplus, deficit, cap)

\* variant: the giving side is not debited
MoveCreditOnly(flows, src, dst, flow) == [flows EXCEPT ![dst] = @ + flow]

\* variant: the receiving side is not credited
MoveDebitOnly(flows, src, dst, flow) == [flows EXCEPT ![src] = @ - flow]

\* food_flows with flow moved from src to dst
Move(flows, src, dst, flow) ==
  [flows EXCEPT ![src] = @ - flow, ![dst] = @ + flow]

\* one iteration of the loop over G.edges()
VisitEdge(flows, f, b, cityA, cityB, threshold, cap) ==
  IF EitherBlocked(b, cityA, cityB) THEN flows
  ELSE LET foodA == ReadFood(f, flows, cityA)
           foodB == ReadFood(f, flows, cityB)
       IN  IF Gives(foodA, foodB, threshold)
           THEN Move(flows, cityA, cityB,
                     Flow(foodA - threshold, threshold - foodB, cap))
           ELSE IF Gives(foodB, foodA, threshold)
           THEN Move(flows, cityB, cityA,
                     Flow(foodB - threshold, threshold - foodA, cap))
           ELSE flows

RECURSIVE FoodFlows(_, _, _, _, _, _)
\* food_flows after the loop has visited the first n edges of es
FoodFlows(f, b, es, n, threshold, cap) ==
  IF n = 0 THEN [c \in Cities |-> 0]
  ELSE VisitEdge(FoodFlows(f, b, es, n - 1, threshold, cap), f, b,
                 es[n][1], es[n][2], threshold, cap)

\* trade_food(G, trade_threshold, max_trade_per_edge): the stocks it leaves
TradeFood(f, b, es, threshold, cap) ==
  LET flows == FoodFlows(f, b, es, Len(es), threshold, cap)
  IN  [c \in Cities |-> f[c] + flows[c]]

-----------------------------------------------------------------------------
(* The operations called on a graph handed in from outside *)

Init ==
  /\ food \in [Cities -> FoodLevels]
  /\ blocked \in [Cities -> BOOLEAN]
  /\ edges \in Topologies
  /\ pc = "idle"
  /\ steps = 0
  /\ step = 0
  /\ hist = <<>>
  /\ start = [food |-> food, blocked |-> blocked]
  /\ atBlock = None

\* produce_food(G, production_amount), called first in a turn
Produce(amount) ==
  /\ pc = "idle"
  /\ hist = <<>>
  /\ food' = ProduceFood(food, blocked, amount)
  /\ hist' = Append(hist, Call("produce", amount, 0, 0, food))
  /\ UNCHANGED <<blocked, edges, pc, steps, step, start, atBlock>>

\* trade_food(G, trade_threshold, max_trade_per_edge), called once, on the
\* graph as handed in or after produce_food
Trade(threshold, cap) ==
  /\ pc = "idle"
  /\ \A i \in 1..Len(hist) : hist[i].name = "produce"
  /\ food' = TradeFood(food, blocked, edges, threshold, cap)
  /\ hist' = Append(hist, Call("trade", 0, threshold, cap, food))
  /\ UNCHANGED <<blocked, edges, pc, steps, step, start, atBlock>>

Next ==
  \/ \E amount \in Amounts : Produce(amount)
  \/ \E threshold \in Thresholds, cap \in Caps : Trade(threshold, cap)

Spec == Init /\ [][Next]_vars

-----------------------------------------------------------------------------
(* simulate_economy, and the cell that runs it, blocks a city and runs it  *)
(* again                                                                   *)

\* variant: trade before production
TurnTradeFirst(f, b, es) ==
  ProduceFood(TradeFood(f, b, es, DefaultThreshold, DefaultMaxTrade), b,
              DefaultProduction)

\* one pass of the loop body: production, then trade
Turn(f, b, es) ==
  TradeFood(ProduceFood(f, b, DefaultProduction), b, es,
            DefaultThreshold, DefaultMaxTrade)

InitRun ==
  /\ food \in [Cities -> FoodLevels]
  /\ blocked = [c \in Cities |-> FALSE]
  /\ edges \in Topologies
  /\ pc = "call1"
  /\ steps = 0
  /\ step = 0
  /\ hist = <<>>
  /\ start = [food |-> food, blocked |-> blocked]
  /\ atBlock = None

\* simulate_economy(G, steps) is entered
SimulateEconomy(n) ==
  /\ pc \in {"call1", "call2"}
  /\ pc' = "loop"
  /\ steps' = n
  /\ step' = 0
  /\ start' = [food |-> food, blocked |-> blocked]
  /\ UNCHANGED <<food, blocked, edges, hist, atBlock>>

\* for step in range(1, steps+1): produce_food; trade_food
LoopBody ==
  /\ pc = "loop"
  /\ step < steps
  /\ food' = Turn(food, blocked, edges)
  /\ step' = step + 1
  /\ hist' = Append(hist, Call("turn", DefaultProduction, DefaultThreshold,
                               DefaultMaxTrade, food))
  /\ UNCHANGED <<blocked, edges, pc, steps, start, atBlock>>

\* the loop is exhausted and simulate_economy returns to the cell
Return ==
  /\ pc = "loop"
  /\ step = steps
  /\ pc' = IF atBlock = None THEN "block" ELSE "done"
  /\ UNCHANGED <<food, blocked, edges, steps, step, hist, start, atBlock>>

\* variant: the flag is written on every city
SetBlockedAll(city, value) ==
  /\ pc = "block"
  /\ blocked' = [c \in Cities |-> value]
  /\ atBlock' = [city |-> city, value |-> value, food |-> food]
  /\ pc' = "call2"
  /\ UNCHANGED <<food, edges, steps, step, hist, start>>

\* G.nodes[city]["blocked"] = value, between the two runs
SetBlocked(city, value) ==
  /\ pc = "block"
  /\ blocked' = [blocked EXCEPT ![city] = value]
  /\ atBlock' = [city |-> city, value |-> value, food |-> food]
  /\ pc' = "call2"
  /\ UNCHANGED <<food, edges, steps, step, hist, start>>

NextRun ==
  \/ \E n \in 0..MaxSteps : SimulateEconomy(n)
  \/ LoopBody
  \/ Return
  \/ \E city \in Cities, value \in BOOLEAN : SetBlocked(city, value)

SpecRun == InitRun /\ [][NextRun]_vars

-----------------------------------------------------------------------------
(* Every operation: produce_food and trade_food called on a graph, or the  *)
(* cell that runs simulate_economy, blocks a city and runs it again        *)

InitFrame == Init \/ InitRun

NextFrame == Next \/ NextRun

SpecFrame == InitFrame /\ [][NextFrame]_vars

-----------------------------------------------------------------------------
(* trade_food called again and again with the same arguments *)

InitRepeat ==
  /\ food \in [Cities -> FoodLevels]
  /\ blocked \in [Cities -> BOOLEAN]
  /\ edges \in Topologies
  /\ pc = "repeat"
  /\ steps = 0
  /\ step = 0
  /\ hist = <<>>
  /\ start = [food |-> food, blocked |-> blocked]
  /\ atBlock = None

\* produce_food(G, production_amount), before the trades
ProduceOnce(amount) ==
  /\ pc = "repeat"
  /\ hist = <<>>
  /\ food' = ProduceFood(food, blocked, amount)
  /\ hist' = <<Call("produce", amount, 0, 0, food)>>
  /\ UNCHANGED <<blocked, edges, pc, steps, step, start, atBlock>>

\* the first trade_food(G, trade_threshold, max_trade_per_edge)
FirstTrade(threshold, cap) ==
  /\ pc = "repeat"
  /\ \A i \in 1..Len(hist) : hist[i].name = "produce"
  /\ food' = TradeFood(food, blocked, edges, threshold, cap)
  /\ hist' = <<Call("trade", 0, threshold, cap, food)>>
  /\ UNCHANGED <<blocked, edges, pc, steps, step, start, atBlock>>

\* trade_food called again, with the arguments of the call before
TradeAgain ==
  /\ pc = "repeat"
  /\ hist # <<>> /\ hist[1].name = "trade"
  /\ food' = TradeFood(food, blocked, edges, hist[1].threshold, hist[1].cap)
  /\ hist' = <<Call("trade", 0, hist[1].threshold, hist[1].cap, food)>>
  /\ UNCHANGED <<blocked, edges, pc, steps, step, start, atBlock>>

NextRepeat ==
  \/ \E amount \in Amounts : ProduceOnce(amount)
  \/ \E threshold \in Thresholds, cap \in Caps : FirstTrade(threshold, cap)
  \/ TradeAgain

\* the caller keeps calling: a call that would change the graph is made
SpecRepeat == InitRepeat /\ [][NextRepeat]_vars /\ WF_vars(NextRepeat)

-----------------------------------------------------------------------------
(* The last call of the history *)

Traded == hist # <<>> /\ hist[Len(hist)].name = "trade"
Produced == hist # <<>> /\ hist[Len(hist)].name = "produce"
last == hist[Len(hist)]

thr == last.threshold
cap == last.cap

-----------------------------------------------------------------------------
(* What the documentation says a trade does, link by link *)

Least(S) == CHOOSE x \in S : \A y \in S : x <= y

RECURSIVE SumSeq(_)
SumSeq(s) == IF s = <<>> THEN 0 ELSE Head(s) + SumSeq(Tail(s))

Touches(e, c) == c = e[1] \/ c = e[2]
Other(e, c) == IF c = e[1] THEN e[2] ELSE e[1]
Open(b, e) == ~b[e[1]] /\ ~b[e[2]]

\* the two stocks lie strictly on opposite sides of the threshold
Straddle(x, y, t) == (x > t /\ y < t) \/ (y > t /\ x < t)

\* a link that carries flow: both ends unblocked, stocks straddling
Carries(f, b, e, t) == Open(b, e) /\ Straddle(f[e[1]], f[e[2]], t)

\* what city c receives (gives, when negative) over its link with city d
LinkGain(f, c, d, t, k) ==
  IF f[d] > t /\ f[c] < t THEN Least({f[d] - t, t - f[c], k})
  ELSE IF f[c] > t /\ f[d] < t THEN 0 - Least({f[c] - t, t - f[d], k})
  ELSE 0

\* what city c receives in all over the links with both ends unblocked
ExpectedGain(f, b, es, c, t, k) ==
  SumSeq([i \in 1..Len(es) |->
            IF Touches(es[i], c) /\ Open(b, es[i])
            THEN LinkGain(f, c, Other(es[i], c), t, k) ELSE 0])

-----------------------------------------------------------------------------
(* C1: food is never negative: every city's food is >= 0 after every      *)
(* produce and every trade on a graph whose stocks start >= 0, with        *)
(* non-negative arguments.                                                 *)
C1_FoodNeverNegative == \A c \in Cities : food[c] >= 0

(* C2: after produce_food, every unblocked city has its food before the   *)
(* call plus exactly production_amount, every blocked city exactly the     *)
(* food it had.                                                            *)
C2_ProduceExact ==
  Produced =>
    \A c \in Cities :
      food[c] = IF blocked[c] THEN last.before[c]
                ELSE last.before[c] + last.amount

C2_Witness ==
  /\ Produced
  /\ last.amount = DefaultProduction
  /\ \E c, d \in Cities :
       /\ blocked[c] /\ food[c] = last.before[c]
       /\ ~blocked[d] /\ food[d] = last.before[d] + DefaultProduction

(* C3: a link with a blocked end carries nothing: trade leaves every      *)
(* blocked city's food unchanged, gives the same result as on the graph    *)
(* without the links that have a blocked end, and changes nothing at all   *)
(* when every link has a blocked end.                                      *)
OpenEdges == SelectSeq(edges, LAMBDA e : Open(blocked, e))

C3_BlockedLinksCarryNothing ==
  Traded =>
    /\ \A c \in Cities : blocked[c] => food[c] = last.before[c]
    /\ food = TradeFood(last.before, [c \in Cities |-> FALSE], OpenEdges,
                        thr, cap)
    /\ (OpenEdges = <<>>) => food = last.before

C3_Witness ==
  /\ Traded
  /\ food = last.before
  /\ edges # <<>>
  /\ OpenEdges = <<>>
  /\ \E i \in 1..Len(edges) :
       /\ blocked[edges[i][1]] # blocked[edges[i][2]]
       /\ Straddle(last.before[edges[i][1]], last.before[edges[i][2]], thr)

(* C4: over a link with both ends unblocked and stocks strictly on        *)
(* opposite sides of the threshold, exactly min(surplus, deficit, cap)     *)
(* moves from the high to the low side, so every city ends with its food   *)
(* plus what its links bring; A=130, B=80 linked, threshold 100, cap 20    *)
(* gives A=110, B=100.                                                     *)
C4_Scenario ==
  /\ Traded
  /\ edges = << <<"A", "B">> >>
  /\ ~blocked["A"] /\ ~blocked["B"]
  /\ last.before["A"] = 130 /\ last.before["B"] = 80
  /\ thr = DefaultThreshold /\ cap = DefaultMaxTrade

C4_LinkFlowExact ==
  /\ Traded =>
       \A c \in Cities :
         food[c] = last.before[c]
                   + ExpectedGain(last.before, blocked, edges, c, thr, cap)
  /\ C4_Scenario => food["A"] = 110 /\ food["B"] = 100

C4_Witness == C4_Scenario /\ food["A"] = 110 /\ food["B"] = 100

(* C5: nothing moves over a link whose ends do not strictly straddle the  *)
(* threshold: a city none of whose links carries flow keeps its food; two  *)
(* linked cities at 100, threshold 100, cap 20, are both at 110 after      *)
(* produce(10) and trade.                                                  *)
C5_Scenario ==
  /\ Len(hist) = 2
  /\ edges = << <<"A", "B">> >>
  /\ ~blocked["A"] /\ ~blocked["B"]
  /\ hist[1].name = "produce" /\ hist[1].amount = DefaultProduction
  /\ hist[1].before["A"] = 100 /\ hist[1].before["B"] = 100
  /\ hist[2].name = "trade"
  /\ hist[2].threshold = DefaultThreshold /\ hist[2].cap = DefaultMaxTrade

C5_NoFlowUnlessStraddle ==
  /\ Traded =>
       \A c \in Cities :
         (\A i \in 1..Len(edges) :
            Touches(edges[i], c) => ~Carries(last.before, blocked, edges[i], thr))
         => food[c] = last.before[c]
  /\ C5_Scenario =>
       /\ hist[2].before["A"] = 110 /\ hist[2].before["B"] = 110
       /\ food["A"] = 110 /\ food["B"] = 110

C5_Witness ==
  /\ C5_Scenario
  /\ hist[2].before["A"] = 110 /\ hist[2].before["B"] = 110
  /\ food["A"] = 110 /\ food["B"] = 110

(* C6 as claimed: for every link with both ends unblocked, the two ends'  *)
(* food sums to the same after trade as before, on any graph.              *)
C6_PairSumConserved ==
  Traded =>
    \A i \in 1..Len(edges) :
      Open(blocked, edges[i]) =>
        food[edges[i][1]] + food[edges[i][2]]
          = last.before[edges[i][1]] + last.before[edges[i][2]]

\* no link other than the i-th that touches an end of the i-th carries flow
AloneAt(i) ==
  \A j \in 1..Len(edges) :
    (j # i /\ (Touches(edges[j], edges[i][1]) \/ Touches(edges[j], edges[i][2])))
      => ~Carries(last.before, blocked, edges[j], thr)

(* C6 as amended: for every link with both ends unblocked, neither of     *)
(* whose ends has another link that carries flow in this trade, the two    *)
(* ends' food sums to the same after trade as before.                      *)
C6_PairSumConservedAlone ==
  Traded =>
    \A i \in 1..Len(edges) :
      (Open(blocked, edges[i]) /\ AloneAt(i)) =>
        food[edges[i][1]] + food[edges[i][2]]
          = last.before[edges[i][1]] + last.before[edges[i][2]]

C6_Witness ==
  /\ Traded
  /\ \E i \in 1..Len(edges) :
       /\ Carries(last.before, blocked, edges[i], thr)
       /\ AloneAt(i)
       /\ \E j \in 1..Len(edges) :
            j # i /\ Touches(edges[j], edges[i][1]) /\ Open(blocked, edges[j])
       /\ food[edges[i][1]] # last.before[edges[i][1]]
       /\ food[edges[i][1]] + food[edges[i][2]]
            = last.before[edges[i][1]] + last.before[edges[i][2]]

(* C9: the result of trade does not depend on the order in which the      *)
(* links are visited, nor on which end of a link is read first: every      *)
(* order of the same links gives every city the same food.                 *)
Reordered(es, p) == [i \in 1..Len(es) |-> es[p[i]]]
Flipped(es) == [i \in 1..Len(es) |-> <<es[i][2], es[i][1]>>]

C9_OrderIndependent ==
  Traded =>
    \A p \in Permutations(1..Len(edges)) :
      /\ food = TradeFood(last.before, blocked, Reordered(edges, p), thr, cap)
      /\ food = TradeFood(last.before, blocked, Flipped(Reordered(edges, p)),
                          thr, cap)

C9_Witness ==
  /\ Traded
  /\ Len(edges) >= 3
  /\ Cardinality({c \in Cities : food[c] # last.before[c]}) >= 3
  /\ \E i, j \in 1..Len(edges) :
       /\ i # j
       /\ Carries(last.before, blocked, edges[i], thr)
       /\ Carries(last.before, blocked, edges[j], thr)
       /\ edges[i][1] \in {edges[j][1], edges[j][2]}
            \/ edges[i][2] \in {edges[j][1], edges[j][2]}

-----------------------------------------------------------------------------
(* The run and the blocking between two runs *)

RECURSIVE RunRef(_, _, _, _)
\* produce_food and then trade_food, applied n times in sequence
RunRef(f, b, es, n) ==
  IF n = 0 THEN f
  ELSE TradeFood(ProduceFood(RunRef(f, b, es, n - 1), b, DefaultProduction),
                 b, es, DefaultThreshold, DefaultMaxTrade)

InRun == pc \in {"loop", "block", "done"}
Returned == pc \in {"block", "done"}

(* C7: simulate_economy(G, steps) leaves the graph as produce and then    *)
(* trade, applied steps times in sequence, leave it: after each turn the   *)
(* food is that of so many produce-then-trade pairs, the run returns after *)
(* exactly steps turns, the blocked flags are untouched, and steps = 0     *)
(* changes nothing.                                                        *)
C7_RunIsProduceThenTrade ==
  /\ InRun =>
       /\ food = RunRef(start.food, start.blocked, edges, step)
       /\ blocked = start.blocked
  /\ Returned => step = steps
  /\ (Returned /\ steps = 0) => food = start.food

C7_Witness ==
  /\ pc = "done"
  /\ steps = MaxSteps /\ step = steps
  /\ \E c \in Cities : blocked[c]
  /\ \E c \in Cities :
       ~blocked[c] /\ food[c] # start.food[c] + steps * DefaultProduction
  /\ food = RunRef(start.food, start.blocked, edges, steps)

\* the links that do not touch city c
Without(es, c) == SelectSeq(es, LAMBDA e : ~Touches(e, c))

\* a city was set blocked after the first run
Blocking == atBlock.city # "" /\ atBlock.value

(* C8: a city set blocked between two runs keeps, after every later turn, *)
(* the food it had when it was blocked; every later turn leaves the graph  *)
(* as it would without the links of that city; and the blocking leaves the *)
(* result of the turns before it as it was.                                *)
C8_BlockedMidRun ==
  Blocking =>
    /\ blocked[atBlock.city]
    /\ food[atBlock.city] = atBlock.food[atBlock.city]
    /\ (pc \in {"loop", "done"} /\ step > 0) =>
         food = TradeFood(ProduceFood(last.before, blocked, DefaultProduction),
                          blocked, Without(edges, atBlock.city),
                          DefaultThreshold, DefaultMaxTrade)
    /\ pc = "call2" =>
         /\ food = atBlock.food
         /\ food = RunRef(start.food, start.blocked, edges, steps)

C8_Witness ==
  /\ Blocking
  /\ pc = "done"
  /\ Len(hist) = 6 /\ steps = 3 /\ step = 3
  /\ food[atBlock.city] = atBlock.food[atBlock.city]
  /\ \A i \in 4..6 : hist[i].before[atBlock.city] = atBlock.food[atBlock.city]
  /\ \E i \in 1..3 : hist[i].before[atBlock.city] # atBlock.food[atBlock.city]
  /\ \E i \in 1..Len(edges) :
       /\ Touches(edges[i], atBlock.city)
       /\ \A j \in 4..6 :
            LET f == ProduceFood(hist[j].before, blocked, DefaultProduction)
            IN  Straddle(f[edges[i][1]], f[edges[i][2]], DefaultThreshold)

-----------------------------------------------------------------------------
(* Repeated trade *)

Abs(x) == IF x < 0 THEN 0 - x ELSE x

\* the sum over the cities of |food - threshold|
Imbalance(f, t) == SumSeq([i \in 1..Len(Nodes) |-> Abs(f[Nodes[i]] - t)])

\* a trade with the arguments of the last one would change nothing
Settled ==
  /\ hist # <<>> /\ hist[1].name = "trade"
  /\ TradeFood(food, blocked, edges, hist[1].threshold, hist[1].cap) = food

(* C10: a trade called again right after a trade, with the same           *)
(* arguments, never increases the sum of |food - threshold|, and repeated  *)
(* trade calls eventually reach a state in which trade changes nothing.    *)
C10_RepeatedTradeSettles ==
  /\ [][(hist # <<>> /\ hist[1].name = "trade") =>
          Imbalance(food', hist[1].threshold) <= Imbalance(food, hist[1].threshold)]_vars
  /\ <>Settled

-----------------------------------------------------------------------------
(* What the operations leave alone *)

\* a step of any operation: the cities and the links stay; the flags change
\* only when a city is set blocked, and then only that city's flag, to the
\* value given, with no city's food changed
FrameStep ==
  /\ edges' = edges
  /\ DOMAIN food' = DOMAIN food
  /\ DOMAIN blocked' = DOMAIN blocked
  /\ pc # "block" => blocked' = blocked
  /\ pc = "block" =>
       /\ food' = food
       /\ blocked'[atBlock'.city] = atBlock'.value
       /\ \A d \in Cities \ {atBlock'.city} : blocked'[d] = blocked[d]

(* C11: produce, trade, a turn and a run change nothing but food: never a *)
(* blocked flag, the set of cities or the links; setting a city blocked    *)
(* changes only that city's flag and no city's food.                       *)
C11_OnlyFoodChanges == [][FrameStep]_vars

C11_Witness ==
  /\ pc = "done"
  /\ Blocking
  /\ step = MaxSteps
  /\ blocked = [start.blocked EXCEPT ![atBlock.city] = TRUE]
  /\ Cardinality({c \in Cities : blocked[c]}) = 1
  /\ food # atBlock.food
  /\ \E i \in 1..Len(hist) : food[atBlock.city] # hist[i].before[atBlock.city]

-----------------------------------------------------------------------------
(* The total *)

Total(f) == SumSeq([i \in 1..Len(Nodes) |-> f[Nodes[i]]])
Unblocked == {c \in Cities : ~blocked[c]}

(* C12: trade conserves the total: the sum of food over all cities after  *)
(* trade equals the sum before it, so after produce and then trade the     *)
(* total has grown by exactly production_amount times the number of        *)
(* unblocked cities.                                                       *)
C12_TotalConserved ==
  /\ Traded => Total(food) = Total(last.before)
  /\ (Len(hist) = 2 /\ hist[1].name = "produce" /\ hist[2].name = "trade") =>
       Total(food) = Total(hist[1].before)
                     + hist[1].amount * Cardinality(Unblocked)

C12_Witness ==
  /\ Len(hist) = 2 /\ hist[1].name = "produce" /\ hist[2].name = "trade"
  /\ hist[1].amount = DefaultProduction
  /\ Cardinality(Unblocked) = 3
  /\ Cardinality({c \in Cities : food[c] # hist[2].before[c]}) >= 3
  /\ Total(food) = Total(hist[1].before) + 3 * DefaultProduction

====
